---- MODULE Spec2Model ----
(***************************************************************************)
(* A model of the GoDiagram class of src/src/sltxt2svg.ts: the constructor *)
(* (header parse, line scan, initBoardAndDimensions, validity check),      *)
(* createSVG with the drawing helpers it calls, and getTitle.              *)
(*                                                                         *)
(* Strings are sequences of one-character strings.  Row and column        *)
(* indices keep JavaScript's 0-based values; At(s, i) is s[i] in           *)
(* JavaScript.  Pixel positions of the drawing are kept in quarter pixels  *)
(* because radius = 8.5 and radius / 2 = 4.25.                             *)
(***************************************************************************)
EXTENDS Integers, Sequences, FiniteSets, TLC

VARIABLES input, pc, self, ret, calls, titleRet

vars == <<input, pc, self, ret, calls, titleRet>>

(***************************************************************************)
(* Bounds of the model.                                                    *)
(***************************************************************************)
\* the number of lines after the header line of an input
MaxLines == 3
\* the number of createSVG calls made on one instance
MaxCalls == 2

(***************************************************************************)
(* JavaScript values.  A string that may be undefined or null is a         *)
(* sequence, Undefined and Null being sequences no string equals.  A       *)
(* number that may be NaN or null is a record with its kind.  A field the  *)
(* constructor never assigned is absent from the instance record.          *)
(***************************************************************************)
Undefined == <<"undefined">>
Null == <<"null">>
NaN == [t |-> "NaN", v |-> 0]
NullNum == [t |-> "null", v |-> 0]
Num(n) == [t |-> "number", v |-> n]
IsNum(x) == x.t = "number"

(***************************************************************************)
(* Character classes.                                                      *)
(***************************************************************************)
WS == {" ", "\t", "\r", "\n", "\f"}
LineTerminators == {"\n", "\r"}
Digits == {"0", "1", "2", "3", "4", "5", "6", "7", "8", "9"}
LowerLetters ==
  {"a", "b", "c", "d", "e", "f", "g", "h", "i", "j", "k", "l", "m",
   "n", "o", "p", "q", "r", "s", "t", "u", "v", "w", "x", "y", "z"}
\* the characters that sort after "z" (code points 123..126)
AboveZ == {"{", "|", "}", "~"}
AnchorChars == LowerLetters \cup Digits \cup {"W", "B", "@", "#", "C", "S"}
BorderChars == {"-", "|", "+"}

(***************************************************************************)
(* String primitives of JavaScript.                                        *)
(***************************************************************************)
\* s[i] of JavaScript: undefined outside 0 .. length - 1
At(s, i) == IF i \in 0 .. Len(s) - 1 THEN s[i + 1] ELSE Undefined

RECURSIVE TrimLeft(_)
TrimLeft(s) == IF s # <<>> /\ Head(s) \in WS THEN TrimLeft(Tail(s)) ELSE s

RECURSIVE TrimRight(_)
TrimRight(s) ==
  IF s # <<>> /\ s[Len(s)] \in WS THEN TrimRight(SubSeq(s, 1, Len(s) - 1)) ELSE s

trim(s) == TrimRight(TrimLeft(s))

contains(s, c) == \E i \in 1 .. Len(s) : s[i] = c

\* the first index of c in s, 0 when there is none
IndexOf(s, c) ==
  IF contains(s, c)
  THEN CHOOSE i \in 1 .. Len(s) : s[i] = c /\ \A j \in 1 .. i - 1 : s[j] # c
  ELSE 0

\* the last index of c in s, 0 when there is none
LastIndexOf(s, c) ==
  IF contains(s, c)
  THEN CHOOSE i \in 1 .. Len(s) : s[i] = c /\ \A j \in i + 1 .. Len(s) : s[j] # c
  ELSE 0

RECURSIVE split(_, _)
split(s, sep) ==
  LET i == IndexOf(s, sep)
  IN  IF i = 0 THEN <<s>>
      ELSE <<SubSeq(s, 1, i - 1)>> \o split(SubSeq(s, i + 1, Len(s)), sep)

RECURSIVE Join(_, _)
Join(ls, sep) ==
  IF ls = <<>> THEN <<>>
  ELSE IF Len(ls) = 1 THEN ls[1]
  ELSE ls[1] \o <<sep>> \o Join(Tail(ls), sep)

\* what a greedy "any characters" group takes at the start of s: it stops at a
\* line terminator
DotStar(s) ==
  IF \E i \in 1 .. Len(s) : s[i] \in LineTerminators
  THEN SubSeq(s, 1,
         (CHOOSE i \in 1 .. Len(s) :
            s[i] \in LineTerminators /\ \A j \in 1 .. i - 1 : s[j] \notin LineTerminators) - 1)
  ELSE s

StartsWithPrefix(s) == Len(s) >= 2 /\ s[1] = "$" /\ s[2] = "$"

DropN(s, n) == SubSeq(s, n + 1, Len(s))

\* the length of the run of the character c at the start of s
RECURSIVE RunOf(_, _)
RunOf(s, c) == IF s # <<>> /\ Head(s) = c THEN 1 + RunOf(Tail(s), c) ELSE 0

HexDigits ==
  Digits \cup {"a", "b", "c", "d", "e", "f", "A", "B", "C", "D", "E", "F"}

DigitVal(c) ==
  CASE c = "0" -> 0 [] c = "1" -> 1 [] c = "2" -> 2 [] c = "3" -> 3
    [] c = "4" -> 4 [] c = "5" -> 5 [] c = "6" -> 6 [] c = "7" -> 7
    [] c = "8" -> 8 [] c = "9" -> 9
    [] c \in {"a", "A"} -> 10 [] c \in {"b", "B"} -> 11 [] c \in {"c", "C"} -> 12
    [] c \in {"d", "D"} -> 13 [] c \in {"e", "E"} -> 14 [] c \in {"f", "F"} -> 15

\* the value of the longest prefix of s made of the digits ds, in the given radix
RECURSIVE DigitsPrefix(_, _, _, _)
DigitsPrefix(s, ds, radix, acc) ==
  IF s # <<>> /\ Head(s) \in ds
  THEN DigitsPrefix(Tail(s), ds, radix, acc * radix + DigitVal(Head(s)))
  ELSE acc

\* parseInt(s) without a radix: white space, a sign, 0x for hexadecimal, digits
parseInt(s) ==
  IF s = Undefined THEN NaN
  ELSE
    LET t == TrimLeft(s)
        neg == t # <<>> /\ Head(t) = "-"
        u == IF t # <<>> /\ Head(t) \in {"-", "+"} THEN Tail(t) ELSE t
        hex == Len(u) >= 2 /\ u[1] = "0" /\ u[2] \in {"x", "X"}
        body == IF hex THEN DropN(u, 2) ELSE u
        ds == IF hex THEN HexDigits ELSE Digits
        n == DigitsPrefix(body, ds, IF hex THEN 16 ELSE 10, 0)
    IN  IF body = <<>> \/ Head(body) \notin ds THEN NaN
        ELSE Num(IF neg THEN 0 - n ELSE n)

(***************************************************************************)
(* Program constants: the default font box of the constructor.             *)
(***************************************************************************)
FontH == 16
FontW == 8

\* Math.floor(Math.sqrt(n))
FloorSqrt(n) == CHOOSE k \in 0 .. n : k * k <= n /\ (k + 1) * (k + 1) > n

(***************************************************************************)
(* The constructor, lines 151-154 and the field initialisers: the instance *)
(* before the header is parsed.                                            *)
(***************************************************************************)
EmptyMap == [k \in {} |-> <<>>]

NewInstance(input_diagram) ==
  [fontSize |-> [h |-> FontH, w |-> FontW],
   inputDiagram |-> input_diagram,
   diagram |-> Null,
   failureErrorMessage |-> "",
   linkmap |-> EmptyMap]

(***************************************************************************)
(* The header pattern on the trimmed first line: the prefix, an optional   *)
(* W or B, an optional c, an optional run of the letter d (the source      *)
(* writes d+, not a digit class), and the rest of the line.                *)
(* ok tells whether the pattern matched; m1 .. m4 are the groups.          *)
(***************************************************************************)
NoHeader ==
  [ok |-> FALSE, m1 |-> Undefined, m2 |-> Undefined, m3 |-> Undefined, m4 |-> Undefined]

\* the groups of the header pattern, r0 being the text after the prefix
headerGroups(r0) ==
  LET has1 == r0 # <<>> /\ Head(r0) \in {"W", "B"}
      r1 == IF has1 THEN Tail(r0) ELSE r0
      has2 == r1 # <<>> /\ Head(r1) = "c"
      r2 == IF has2 THEN Tail(r1) ELSE r1
      n3 == RunOf(r2, "d")
      r3 == DropN(r2, n3)
  IN  [ok |-> TRUE,
       m1 |-> IF has1 THEN <<Head(r0)>> ELSE Undefined,
       m2 |-> IF has2 THEN <<"c">> ELSE Undefined,
       m3 |-> IF n3 > 0 THEN SubSeq(r2, 1, n3) ELSE Undefined,
       m4 |-> DotStar(r3)]

\* the header pattern without its anchor: the prefix may stand anywhere
headerMatch_Unanchored(line) ==
  LET t == trim(line)
      at == {k \in 1 .. Len(t) - 1 : t[k] = "$" /\ t[k + 1] = "$"}
  IN  IF at = {} THEN NoHeader
      ELSE headerGroups(DropN(t, (CHOOSE k \in at : \A j \in at : k <= j) + 1))

headerMatch(line) ==
  LET t == trim(line)
  IN  IF ~StartsWithPrefix(t) THEN NoHeader ELSE headerGroups(DropN(t, 2))

(***************************************************************************)
(* The line scan, lines 303-315.                                           *)
(***************************************************************************)
\* the content pattern on the trimmed line (the prefix, white space, a character
\* that is neither "[" nor white space, the rest): group 1, when ok
contentMatch(line) ==
  LET t == trim(line)
      no == [ok |-> FALSE, m1 |-> Undefined]
  IN  IF ~StartsWithPrefix(t) THEN no
      ELSE LET r == TrimLeft(DropN(t, 2))
           IN  IF r = <<>> \/ Head(r) = "[" THEN no
               ELSE [ok |-> TRUE, m1 |-> DotStar(r)]

\* the link pattern on the line as it is (the prefix, white space, "[", a greedy
\* group, "|", a greedy group, "]"): groups 1 and 2, when ok
linkMatch(line) ==
  LET no == [ok |-> FALSE, m1 |-> Undefined, m2 |-> Undefined]
  IN
  IF ~StartsWithPrefix(line) THEN no
  ELSE
    LET r == TrimLeft(DropN(line, 2))
    IN  IF r = <<>> \/ Head(r) # "[" THEN no
        ELSE
          LET seg == DotStar(Tail(r))
              j == LastIndexOf(seg, "]")
              i == IF j = 0 THEN 0 ELSE LastIndexOf(SubSeq(seg, 1, j - 1), "|")
          IN  IF j = 0 \/ i = 0 THEN no
              ELSE [ok |-> TRUE, m1 |-> SubSeq(seg, 1, i - 1), m2 |-> SubSeq(seg, i + 1, j - 1)]

\* the anchor pattern without its end anchor: a longer anchor passes
anchorMatch_Prefix(anchor) == anchor # <<>> /\ anchor[1] \in AnchorChars

\* the anchor pattern: one character of [a-z0-9WB@#CS]
anchorMatch(anchor) == Len(anchor) = 1 /\ anchor[1] \in AnchorChars

MapSet(m, k, v) == [x \in DOMAIN m \cup {k} |-> IF x = k THEN v ELSE m[x]]

\* one iteration of the loop: the diagram text and the link map after the line
scanLine(acc, line) ==
  LET cm == contentMatch(line)
      lm == linkMatch(line)
      d == IF cm.ok THEN acc.diagram \o cm.m1 \o <<"\n">> ELSE acc.diagram
      anchor == trim(lm.m1)
      l == IF lm.ok /\ anchorMatch(anchor)
           THEN MapSet(acc.linkmap, anchor, trim(lm.m2))
           ELSE acc.linkmap
  IN  [diagram |-> d, linkmap |-> l]

RECURSIVE scanLines(_, _)
scanLines(acc, lines) ==
  IF lines = <<>> THEN acc
  ELSE scanLines(scanLine(acc, Head(lines)), Tail(lines))

(***************************************************************************)
(* initBoardAndDimensions, lines 197-281.                                  *)
(***************************************************************************)
ReplaceBorders(s) == [i \in 1 .. Len(s) |-> IF s[i] \in BorderChars THEN "%" ELSE s[i]]

RemoveChars(s, cs) == SelectSeq(s, LAMBDA c : c \notin cs)

\* every run of line feeds becomes a space and one line feed
RECURSIVE CollapseNewlines(_)
CollapseNewlines(s) ==
  IF s = <<>> THEN <<>>
  ELSE IF Head(s) = "\n"
       THEN <<" ", "\n">> \o CollapseNewlines(DropN(s, RunOf(s, "\n")))
       ELSE <<Head(s)>> \o CollapseNewlines(Tail(s))

normalizeDiagram(diagram) ==
  CollapseNewlines(RemoveChars(ReplaceBorders(diagram), {"\t", "\r", "$"}))

\* the test of line 210: a space, a digit and no "{"
isNonCompact(r) ==
  contains(r, " ") /\ (\E i \in 1 .. Len(r) : r[i] \in Digits) /\ ~contains(r, "{")

\* a row of the grid is a sequence of tokens: the pieces between spaces of a
\* non-compact row, the single characters of a row with its spaces removed
normalizeRow(r) ==
  IF isNonCompact(r) THEN split(r, " ")
  ELSE LET t == RemoveChars(r, {" "}) IN [i \in 1 .. Len(t) |-> <<t[i]>>]

makeRows(diagram) ==
  LET tempRows == split(normalizeDiagram(diagram), "\n")
  IN  [i \in 1 .. Len(tempRows) |-> normalizeRow(tempRows[i])]

\* this.rows[y] for a row that exists, and this.rows[y][x]
Row(rows, y) == rows[y + 1]
Cell(rows, y, x) == At(Row(rows, y), x)

Sentinel == <<"%">>

\* lines 216-244: the bounds and the border flags
findBorders(rows) ==
  LET endrow0 == Len(rows) - 1
      top == Cell(rows, 0, 1) = Sentinel
      startrow == IF top THEN 1 ELSE 0
      bottom == Cell(rows, endrow0, 1) = Sentinel
      endrow == IF bottom THEN endrow0 - 1 ELSE endrow0
      left == Cell(rows, startrow, 0) = Sentinel
      startcol == IF left THEN 1 ELSE 0
      endcol0 == Len(Row(rows, startrow)) - 2
      right == Cell(rows, endrow, endcol0) = Sentinel
      endcol == IF right THEN endcol0 - 1 ELSE endcol0
  IN  [startrow |-> startrow, startcol |-> startcol,
       endrow |-> endrow, endcol |-> endcol,
       topborder |-> IF top THEN 1 ELSE 0,
       bottomborder |-> IF bottom THEN 1 ELSE 0,
       leftborder |-> IF left THEN 1 ELSE 0,
       rightborder |-> IF right THEN 1 ELSE 0]

Diameter(fontSize) == FloorSqrt(fontSize.h * fontSize.h + fontSize.w * fontSize.w)

\* the test with one border of either axis being enough
coordinatesPossible_Either(b) ==
  (b.bottomborder = 1 \/ b.topborder = 1) \/ (b.leftborder = 1 \/ b.rightborder = 1)

\* the test of lines 266-269
coordinatesPossible(b) ==
  (b.bottomborder = 1 \/ b.topborder = 1) /\ (b.leftborder = 1 \/ b.rightborder = 1)

\* lines 254-280: the image size, the offsets and the coordinates flag.
\* radius is in quarter pixels (diameter / 2 pixels), the others in pixels.
layout(b, fontSize, coordinates) ==
  LET diameter == Diameter(fontSize)
      width == diameter * (1 + b.endcol - b.startcol) + 4
      height == diameter * (1 + b.endrow - b.startrow) + 4
      x == fontSize.w * 2 + 4
      y == fontSize.h + 2
      margin == coordinates /\ coordinatesPossible(b)
  IN  [radius |-> 2 * diameter,
       imageWidth |-> IF margin THEN width + x ELSE width,
       imageHeight |-> IF margin THEN height + y ELSE height,
       offset_x |-> IF margin THEN 2 + x ELSE 2,
       offset_y |-> IF margin THEN 2 + y ELSE 2,
       coordinates |-> margin]

initBoardAndDimensions(o) ==
  LET rows == makeRows(o.diagram)
      b == findBorders(rows)
  IN  layout(b, o.fontSize, o.coordinates) @@ b @@ [rows |-> rows] @@ o

(***************************************************************************)
(* The constructor, lines 283-328.                                         *)
(***************************************************************************)
ParseFailed == "Parsing of ASCII diagram failed"

\* the validity check left out
boundsViolated_Never(o) == FALSE

\* lines 319-326
boundsViolated(o) ==
  \/ o.startrow > o.endrow
  \/ o.startcol > o.endcol
  \/ o.endrow < 0
  \/ o.endcol < 0
  \/ o.imageWidth < o.fontSize.w
  \/ o.imageHeight < o.fontSize.h

\* lines 291-294
headerFields(m) ==
  [firstColor |-> IF m.m1 = <<"W">> THEN "W" ELSE "B",
   coordinates |-> m.m2 # Undefined,
   boardSize |-> IF m.m3 = Undefined THEN Num(19) ELSE parseInt(m.m3),
   title |-> trim(m.m4)]

GoDiagram(input_diagram) ==
  LET o0 == NewInstance(input_diagram)
      content == split(input_diagram, "\n")
      m == headerMatch(content[1])
  IN  IF ~m.ok
      THEN [failureErrorMessage |-> ParseFailed, content |-> content] @@ o0
      ELSE
        LET scanned == scanLines([diagram |-> <<>>, linkmap |-> EmptyMap], Tail(content))
            o1 == scanned @@ headerFields(m) @@ [content |-> content] @@ o0
            o2 == initBoardAndDimensions(o1)
        IN  IF boundsViolated(o2) THEN [o2 EXCEPT !.diagram = Null] ELSE o2

(***************************************************************************)
(* createSVG, lines 393-677, and the drawing helpers.  The document is a   *)
(* sequence of elements in the order of the text; positions and lengths    *)
(* are in quarter pixels.                                                  *)
(***************************************************************************)
black == "rgb(0, 0, 0)"
white == "rgb(255, 255, 255)"
red == "rgb(255, 55, 55)"
goban == "rgb(242, 176, 109)"
link == "rgb(202, 106, 69)"

\* this.linkmap is a plain object: a key it does not own is looked up in
\* Object.prototype, whose members these are
ObjectPrototypeKeys ==
  {<<"c", "o", "n", "s", "t", "r", "u", "c", "t", "o", "r">>,
   <<"t", "o", "S", "t", "r", "i", "n", "g">>,
   <<"v", "a", "l", "u", "e", "O", "f">>,
   <<"t", "o", "L", "o", "c", "a", "l", "e", "S", "t", "r", "i", "n", "g">>,
   <<"h", "a", "s", "O", "w", "n", "P", "r", "o", "p", "e", "r", "t", "y">>,
   <<"i", "s", "P", "r", "o", "t", "o", "t", "y", "p", "e", "O", "f">>,
   <<"p", "r", "o", "p", "e", "r", "t", "y", "I", "s", "E", "n", "u", "m", "e", "r", "a", "b", "l", "e">>,
   <<"_", "_", "p", "r", "o", "t", "o", "_", "_">>,
   <<"_", "_", "d", "e", "f", "i", "n", "e", "G", "e", "t", "t", "e", "r", "_", "_">>,
   <<"_", "_", "d", "e", "f", "i", "n", "e", "S", "e", "t", "t", "e", "r", "_", "_">>,
   <<"_", "_", "l", "o", "o", "k", "u", "p", "G", "e", "t", "t", "e", "r", "_", "_">>,
   <<"_", "_", "l", "o", "o", "k", "u", "p", "S", "e", "t", "t", "e", "r", "_", "_">>}

Inherited(key) == <<"Object.prototype">> \o key

\* this.linkmap[key]
linkmapGet(linkmap, key) ==
  IF key \in DOMAIN linkmap THEN linkmap[key]
  ELSE IF key \in ObjectPrototypeKeys THEN Inherited(key)
  ELSE Undefined

\* the test of lines 521-524 and 620-621
isLinked(linkmap, key) == linkmapGet(linkmap, key) \notin {Undefined, Null}

\* a % b of JavaScript for b > 0: the sign of a
JsMod(a, b) == IF a >= 0 THEN a % b ELSE 0 - ((0 - a) % b)

\* curchar >= "a" and curchar <= "z", the comparison of strings by code units
\* (over the characters up to "~")
geA(tok) == tok # Undefined /\ tok # <<>> /\ tok[1] \in LowerLetters \cup AboveZ
leZ(tok) ==
  /\ tok # Undefined
  /\ tok = <<>> \/ (tok[1] \notin AboveZ /\ (tok[1] # "z" \/ Len(tok) = 1))

drawStone(x, y, colorRing, colorInside, radius) ==
  <<[tag |-> "circle", cx |-> x, cy |-> y, r |-> radius,
     stroke |-> colorRing, fill |-> colorInside]>>

markIntersection(x, y, radius, color, type) ==
  IF type \in {<<"W">>, <<"B">>, <<"C">>}
  THEN <<[tag |-> "circle", cx |-> x, cy |-> y, r |-> radius - 12,
          stroke |-> color, fill |-> "none"],
         [tag |-> "circle", cx |-> x, cy |-> y, r |-> radius - 8,
          stroke |-> color, fill |-> "none"]>>
  ELSE IF type \in {<<"S">>, <<"@">>, <<"#">>}
  THEN <<[tag |-> "rect", x |-> x - (radius \div 2) + 4, y |-> y - (radius \div 2) + 4,
          width |-> 28, height |-> 28, stroke |-> color, fill |-> "none"]>>
  ELSE IF type = <<",">>
  THEN <<[tag |-> "circle", cx |-> x, cy |-> y, r |-> 12,
          stroke |-> color, fill |-> color]>>
  ELSE <<>>

\* lines 787-800: threw is the TypeError of reading a cell of a row that does
\* not exist
getIntersectionType(rows, x, y) ==
  IF y - 1 \notin 0 .. Len(rows) - 1 \/ y + 1 \notin 0 .. Len(rows) - 1
  THEN [threw |-> TRUE, type |-> <<>>]
  ELSE [threw |-> FALSE,
        type |-> (IF Cell(rows, y - 1, x) = Sentinel THEN <<"U">> ELSE <<>>)
                 \o (IF Cell(rows, y + 1, x) = Sentinel THEN <<"B">> ELSE <<>>)
                 \o (IF Cell(rows, y, x - 1) = Sentinel THEN <<"L">> ELSE <<>>)
                 \o (IF Cell(rows, y, x + 1) = Sentinel THEN <<"R">> ELSE <<>>)]

Line(x1, y1, x2, y2, color) ==
  [tag |-> "line", x1 |-> x1, y1 |-> y1, x2 |-> x2, y2 |-> y2, stroke |-> color]

drawIntersection(x, y, color, type, radius) ==
  (IF ~contains(type, "U") THEN <<Line(x, y - radius, x, y, color)>> ELSE <<>>)
  \o (IF ~contains(type, "B") THEN <<Line(x, y + radius, x, y, color)>> ELSE <<>>)
  \o (IF ~contains(type, "L") THEN <<Line(x - radius, y, x, y, color)>> ELSE <<>>)
  \o (IF ~contains(type, "R") THEN <<Line(x + radius, y, x, y, color)>> ELSE <<>>)

\* lines 478-484
evencolor(o) == IF o.firstColor = "W" THEN black ELSE white
\* the odd colour when the first colour is ignored
oddcolor_BlackFirst(o) == black

oddcolor(o) == IF o.firstColor = "W" THEN white ELSE black

\* lines 492-495 and 503-506
elementY(o, ypos) == (ypos - o.startrow) * (o.radius * 2) + o.radius + 4 * o.offset_y
elementX(o, xpos) == (xpos - o.startcol) * (o.radius * 2) + o.radius + 4 * o.offset_x

\* lines 521-543: what the cell adds to imgSvg["links"]
cellLink(o, ypos, xpos) ==
  LET curchar == Cell(o.rows, ypos, xpos)
  IN  IF isLinked(o.linkmap, curchar)
      THEN <<[tag |-> "a", href |-> linkmapGet(o.linkmap, curchar),
              x |-> elementX(o, xpos) - o.radius, y |-> elementY(o, ypos) - o.radius,
              width |-> o.radius * 2, height |-> o.radius * 2,
              stroke |-> goban, fill |-> link]>>
      ELSE <<>>

\* lines 641-659
markupText(o, x, y, curchar, markupColor) ==
  LET n == parseInt(curchar)
      xOffset == IF IsNum(n) /\ n.v >= 10 THEN 4 * o.fontSize.w ELSE 2 * o.fontSize.w
      yOffset == 2 * o.fontSize.h - 50
  IN  <<[tag |-> "text", x |-> x - xOffset, y |-> y - yOffset,
         fill |-> markupColor, class |-> "markup", text |-> curchar]>>

\* the numeral 0 left as it is
displayLabel_Same(curchar) == curchar

\* lines 608-610: the label of the numeral 0
displayLabel(curchar) == IF curchar = <<"0">> THEN <<"1", "0">> ELSE curchar

\* lines 548-661: what the cell adds to imgSvg["svgDiagram"]
cellSymbol(o, ypos, xpos) ==
  LET curchar == Cell(o.rows, ypos, xpos)
      x == elementX(o, xpos)
      y == elementY(o, ypos)
      n == parseInt(curchar)
      it == getIntersectionType(o.rows, xpos, ypos)
      done(items) == [threw |-> FALSE, svgItem |-> items]
      thrown == [threw |-> TRUE, svgItem |-> <<>>]
  IN  IF curchar \in {<<"X">>, <<"B">>, <<"#">>}
      THEN done(drawStone(x, y, black, black, o.radius)
                \o (IF curchar # <<"X">>
                    THEN markIntersection(x, y, o.radius, red, curchar) ELSE <<>>))
      ELSE IF curchar \in {<<"O">>, <<"W">>, <<"@">>}
      THEN done(drawStone(x, y, black, white, o.radius)
                \o (IF curchar # <<"O">>
                    THEN markIntersection(x, y, o.radius, red, curchar) ELSE <<>>))
      ELSE IF curchar \in {<<".">>, <<",">>, <<"C">>, <<"S">>}
      THEN IF it.threw THEN thrown
           ELSE done(drawIntersection(x, y, black, it.type, o.radius)
                     \o (IF curchar # <<".">>
                         THEN markIntersection(x, y, o.radius,
                                IF curchar = <<",">> THEN black ELSE red, curchar)
                         ELSE <<>>))
      ELSE IF IsNum(n) /\ JsMod(n.v, 2) = 1
      THEN done(drawStone(x, y, black, oddcolor(o), o.radius)
                \o markupText(o, x, y, curchar, evencolor(o)))
      ELSE IF IsNum(n) /\ (JsMod(n.v, 2) = 0 \/ n.v = 0)
      THEN done(drawStone(x, y, black, evencolor(o), o.radius)
                \o markupText(o, x, y, displayLabel(curchar), oddcolor(o)))
      ELSE IF geA(curchar) /\ leZ(curchar)
      THEN IF it.threw THEN thrown
           ELSE done(drawIntersection(x, y, black, it.type, o.radius)
                     \o drawStone(x, y, goban, goban, o.radius)
                     \o markupText(o, x, y, curchar, black))
      ELSE done(<<>>)

\* the cells of the drawing loop, row by row
cellsOf(o) ==
  LET nc == o.endcol - o.startcol + 1
      nr == o.endrow - o.startrow + 1
  IN  [k \in 1 .. nr * nc |->
         [ypos |-> o.startrow + ((k - 1) \div nc), xpos |-> o.startcol + ((k - 1) % nc)]]

RECURSIVE Flatten(_)
Flatten(ss) == IF ss = <<>> THEN <<>> ELSE Head(ss) \o Flatten(Tail(ss))

(***************************************************************************)
(* drawCoordinates, lines 870-952.                                         *)
(***************************************************************************)
coordChars ==
  <<"A", "B", "C", "D", "E", "F", "G", "H", "J", "K", "L", "M", "N", "O",
   "P", "Q", "R", "S", "T", "U", "V", "W", "X", "Y", "Z", "a", "b", "c",
   "d", "e", "f", "g", "h", "j", "k", "l", "m", "n", "o", "p", "q", "r",
   "s", "t", "u", "v", "w", "x", "y", "z", "1", "2", "3", "4", "5", "6",
   "7", "8", "9">>

\* lines 883-889
firstCoordY(o) ==
  IF o.bottomborder = 1 THEN Num(o.endrow - o.startrow + 1)
  ELSE IF o.topborder = 1 THEN o.boardSize
  ELSE Num(0)

\* lines 891-900
firstCoordX(o) ==
  IF o.leftborder = 1 THEN Num(0)
  ELSE IF o.rightborder = 1
  THEN IF IsNum(o.boardSize)
       THEN (LET c == o.boardSize.v - o.endcol - 1 IN Num(IF c < 0 THEN 0 ELSE c))
       ELSE NaN
  ELSE Num(0)

\* lines 905-927: the row labels, one for each y of the loop
leftColSvgElems(o) ==
  LET c0 == firstCoordY(o)
      leftX == 4 * (6 + o.fontSize.w)
      img_y == 4 * (12 + o.fontSize.h + 2) + o.radius - 2 * o.fontSize.h
      coordY(y) == IF IsNum(c0) THEN Num(c0.v - y) ELSE NaN
      Xoffset(y) ==
        IF IsNum(c0) /\ c0.v - y >= 10 THEN 4 * o.fontSize.w ELSE 2 * o.fontSize.w
  IN  [k \in 1 .. o.endrow - o.startrow |->
         [tag |-> "text", class |-> "coordClass", x |-> leftX - Xoffset(k - 1),
          y |-> img_y + (k - 1) * (o.radius * 2 + 2), value |-> coordY(k - 1)]]

\* lines 929-950: the column labels
topRowSvgElems(o) ==
  LET c0 == firstCoordX(o)
      img_x == 4 * (2 + o.fontSize.w * 2 + 4) + o.radius - 2 * o.fontSize.w
  IN  [k \in 1 .. o.endcol - o.startcol + 1 |->
         [tag |-> "text", class |-> "coordClass", x |-> img_x + (k - 1) * (o.radius * 2),
          y |-> 72,
          text |-> IF IsNum(c0) THEN <<At(coordChars, c0.v + k - 1)>> ELSE <<Undefined>>]]

drawCoordinates(o) == leftColSvgElems(o) \o topRowSvgElems(o)

(***************************************************************************)
(* createSVG: the value it returns, or the exception it raises.            *)
(***************************************************************************)
\* String(svgError) of createSvgErrorMessage, line 390
ErrorPlaceholder == <<[tag |-> "#text", data |-> "[object SVGGElement]"]>>

svgDiagram(o) ==
  Flatten([k \in DOMAIN cellsOf(o) |->
             cellSymbol(o, cellsOf(o)[k].ypos, cellsOf(o)[k].xpos).svgItem])

\* imgSvg["links"] starts undefined, and += makes a string of it
links(o) ==
  <<[tag |-> "#text", data |-> "undefined"]>>
  \o Flatten([k \in DOMAIN cellsOf(o) |->
                cellLink(o, cellsOf(o)[k].ypos, cellsOf(o)[k].xpos)])

loopThrows(o) ==
  \E k \in DOMAIN cellsOf(o) : cellSymbol(o, cellsOf(o)[k].ypos, cellsOf(o)[k].xpos).threw

createSVG(o) ==
  IF o.diagram = Null
  THEN [kind |-> "returned", xml |-> ErrorPlaceholder,
        width |-> NullNum, height |-> NullNum]
  ELSE IF loopThrows(o)
  THEN [kind |-> "threw", error |-> "TypeError"]
  ELSE [kind |-> "returned",
        xml |-> <<[tag |-> "svg", width |-> 4 * o.imageWidth, height |-> 4 * o.imageHeight],
                  [tag |-> "rect", x |-> 0, y |-> 0, width |-> 4 * o.imageWidth,
                   height |-> 4 * o.imageHeight, fill |-> goban]>>
                \o svgDiagram(o)
                \o links(o)
                \o (IF o.coordinates THEN drawCoordinates(o) ELSE <<>>)
                \o <<[tag |-> "/svg"]>>,
        width |-> Num(o.imageWidth), height |-> Num(o.imageHeight)]

\* line 403 run on every call, not only on the failure path
afterCreateSVG_Always(o) == [o EXCEPT !.failureErrorMessage = ParseFailed]

\* line 403: the only field createSVG assigns
afterCreateSVG(o) ==
  IF o.diagram = Null THEN [o EXCEPT !.failureErrorMessage = ParseFailed] ELSE o

(***************************************************************************)
(* getTitle, lines 350-352, and htmlspecialchars, lines 331-348.           *)
(***************************************************************************)
htmlEntity(c) ==
  CASE c = "&" -> <<"&", "a", "m", "p", ";">>
    [] c = "<" -> <<"&", "l", "t", ";">>
    [] c = ">" -> <<"&", "g", "t", ";">>
    [] c = "\"" -> <<"&", "q", "u", "o", "t", ";">>
    [] c = "'" -> <<"&", "#", "0", "3", "9", ";">>
    [] OTHER -> <<c>>

htmlspecialchars(text) == Flatten([i \in 1 .. Len(text) |-> htmlEntity(text[i])])

\* this.title was never assigned when the header did not match: text.replace
\* on undefined raises a TypeError
getTitle(o) ==
  IF "title" \notin DOMAIN o
  THEN [kind |-> "threw", error |-> "TypeError"]
  ELSE [kind |-> "returned", text |-> htmlspecialchars(o.title)]

(***************************************************************************)
(* The inputs: a header line and up to MaxLines further lines.             *)
(***************************************************************************)
P == <<"$", "$", " ">>

\* the headers tried with every body
Headers ==
  {<<"$", "$", "B">>,
   <<"$", "$", "W", "c">>}

\* the headers tried with the bodies of at most one line: one that does not
\* start with the prefix, one that does after trimming, one with neither a
\* colour nor a flag, two with a board size and one with the letter d
OtherHeaders ==
  {<<"B", "$", "$">>,
   <<" ", "$", "$", "B", "c", " ">>,
   <<"$", "$">>,
   <<"$", "$", "B", "1", "3">>,
   <<"$", "$", "W", "c", "9", " ", "<", "t">>,
   <<"$", "$", "B", "d", "d">>}

\* the link lines of an input
LinkPool ==
  {P \o <<"[", "a", "|", "u", "]">>,
   P \o <<"[", "a", "b", "|", "u", "]">>,
   P \o <<"[", "X", "|", "u", "]">>,
   P \o <<"[", " ", "|", "u", "]">>}

\* the diagram lines of an input
BoardPool ==
  {P \o <<"+", "-", "+">>,
   P \o <<"|", " ", ".", " ", "|">>,
   P \o <<"|", "a", ".", "|">>,
   P \o <<"|", " ", "1", " ", "0", " ", "1", "2", " ", "|">>,
   P \o <<"|", ".", "1", "|">>,
   P \o <<".", " ", "1", " ", "{">>,
   P \o <<"1", " ">> \o <<"v", "a", "l", "u", "e", "O", "f">>}

\* the sequences of n lines of the pool S
RECURSIVE LinesOf(_, _)
LinesOf(S, n) ==
  IF n = 0 THEN {<<>>} ELSE {b \o <<l>> : b \in LinesOf(S, n - 1), l \in S}

\* the bodies of at most n lines: link lines, then diagram lines
Bodies(n) ==
  UNION {{ls \o bs : ls \in LinesOf(LinkPool, p[1]), bs \in LinesOf(BoardPool, p[2])} :
           p \in {q \in (0 .. n) \X (0 .. n) : q[1] + q[2] <= n}}

Inputs ==
  {Join(<<h>> \o b, "\n") : h \in Headers, b \in Bodies(MaxLines)}
  \cup {Join(<<h>> \o b, "\n") : h \in OtherHeaders, b \in Bodies(1)}

(***************************************************************************)
(* The state machine: new GoDiagram(input), then createSVG (up to MaxCalls  *)
(* times) and getTitle in any order.                                       *)
(***************************************************************************)
NoReturn == [kind |-> "none"]

Init ==
  /\ input \in Inputs
  /\ pc = "new"
  /\ self = NewInstance(input)
  /\ ret = NoReturn
  /\ calls = 0
  /\ titleRet = NoReturn

Construct ==
  /\ pc = "new"
  /\ self' = GoDiagram(input)
  /\ pc' = "constructed"
  /\ UNCHANGED <<input, ret, calls, titleRet>>

CreateSVG ==
  /\ pc = "constructed"
  /\ calls < MaxCalls
  /\ ret' = createSVG(self)
  /\ self' = afterCreateSVG(self)
  /\ calls' = calls + 1
  /\ UNCHANGED <<input, pc, titleRet>>

GetTitle ==
  /\ pc = "constructed"
  /\ titleRet' = getTitle(self)
  /\ UNCHANGED <<input, pc, self, ret, calls>>

Next == Construct \/ CreateSVG \/ GetTitle

Spec == Init /\ [][Next]_vars

(***************************************************************************)
(* Properties.                                                             *)
(***************************************************************************)
Constructed == pc = "constructed"
\* the header matched, so the constructor went on to assign the bounds
Parsed == Constructed /\ "startrow" \in DOMAIN self
Valid == Constructed /\ self.diagram # Null
FirstLine(in) == split(in, "\n")[1]
BodyLines(in) == Tail(split(in, "\n"))

\* C1: a valid instance has startrow <= endrow, startcol <= endcol, endrow >= 0
\* and endcol >= 0, and an instance whose computed bounds violate one of these
\* is invalid.
C1_SpanViolated ==
  \/ self.startrow > self.endrow
  \/ self.startcol > self.endcol
  \/ self.endrow < 0
  \/ self.endcol < 0

C1_ValidHasBounds ==
  /\ Valid => Parsed /\ ~C1_SpanViolated
  /\ Parsed /\ C1_SpanViolated => self.diagram = Null

\* a diagram with rows whose column span is empty was left invalid
C1_Witness ==
  /\ Parsed
  /\ Len(self.rows) > 1
  /\ self.startcol > self.endcol
  /\ self.diagram = Null

\* C2: when the trimmed first line does not start with the prefix, the
\* instance is invalid after construction and after every createSVG call, and
\* every call returns the placeholder with width = null and height = null.
C2_BadHeader == ~StartsWithPrefix(trim(FirstLine(input)))

C2_BadHeaderStaysInvalid ==
  Constructed /\ C2_BadHeader =>
    /\ self.diagram = Null
    /\ calls > 0 =>
         /\ ret.kind = "returned"
         /\ ret.width = NullNum
         /\ ret.height = NullNum
         /\ \A i \in DOMAIN ret.xml : ret.xml[i].tag # "svg"

C2_Witness ==
  /\ Constructed
  /\ C2_BadHeader
  /\ calls >= 2
  /\ ret.kind = "returned"
  /\ ret.width = NullNum

\* C3: a createSVG call on a valid instance changes no field of the instance,
\* and its result equals the result of the call before it.
C3_RenderChangesNothing ==
  [][Valid => (self' = self /\ (calls > 0 => ret' = ret))]_vars

\* two calls on a valid instance have returned a board
C3_Witness ==
  /\ Valid
  /\ calls >= 2
  /\ ret.kind = "returned"
  /\ IsNum(ret.width)

(***************************************************************************)
(* The diagram as it is written in the input: its lines, its border lines  *)
(* and the cells of a row.                                                 *)
(***************************************************************************)
RECURSIVE ContentTexts(_)
ContentTexts(lines) ==
  IF lines = <<>> THEN <<>>
  ELSE (IF contentMatch(Head(lines)).ok THEN <<contentMatch(Head(lines)).m1>> ELSE <<>>)
       \o ContentTexts(Tail(lines))

DiagramLines(in) == ContentTexts(BodyLines(in))

IsBorderLine(l) ==
  /\ \E i \in 1 .. Len(l) : l[i] \in BorderChars
  /\ \A i \in 1 .. Len(l) : l[i] \in BorderChars \cup {" "}

\* the cells of a written row: the pieces between spaces when the cells are
\* spaced, the characters when they are not
WrittenCells(l) ==
  IF contains(l, " ") THEN SelectSeq(split(l, " "), LAMBDA t : t # <<>>)
  ELSE [i \in 1 .. Len(l) |-> <<l[i]>>]

IsBorderCell(c) == Len(c) = 1 /\ c[1] \in BorderChars

IsEnclosedRow(l) ==
  LET cs == WrittenCells(l)
  IN  /\ Len(cs) >= 3
      /\ IsBorderCell(cs[1])
      /\ IsBorderCell(cs[Len(cs)])
      /\ \A i \in 2 .. Len(cs) - 1 : ~IsBorderCell(cs[i])

FullyEnclosed(in) ==
  LET D == DiagramLines(in)
  IN  /\ Len(D) >= 3
      /\ IsBorderLine(D[1])
      /\ IsBorderLine(D[Len(D)])
      /\ \A i \in 2 .. Len(D) - 1 :
           IsEnclosedRow(D[i]) /\ Len(WrittenCells(D[i])) = Len(WrittenCells(D[2]))

InteriorRows(in) == Len(DiagramLines(in)) - 2
InteriorCols(in) == Len(WrittenCells(DiagramLines(in)[2])) - 2

HeaderRequestsCoordinates(in) ==
  headerMatch(FirstLine(in)).ok /\ headerMatch(FirstLine(in)).m2 # Undefined

MarginX == self.fontSize.w * 2 + 4
MarginY == self.fontSize.h + 2

\* C4: for a diagram enclosed by border lines with R interior rows and C
\* interior columns, the visible span is R rows and C columns, and the image is
\* diameter * C + 4 wide and diameter * R + 4 high, plus the coordinate margins
\* when coordinates stay enabled.
C4_EnclosedSpanIsInterior ==
  Parsed /\ FullyEnclosed(input) =>
    /\ self.endrow - self.startrow + 1 = InteriorRows(input)
    /\ self.endcol - self.startcol + 1 = InteriorCols(input)
    /\ self.imageWidth = Diameter(self.fontSize) * InteriorCols(input) + 4
                         + (IF self.coordinates THEN MarginX ELSE 0)
    /\ self.imageHeight = Diameter(self.fontSize) * InteriorRows(input) + 4
                          + (IF self.coordinates THEN MarginY ELSE 0)

\* C5: on a valid instance the coordinates flag is true only if the header asked
\* for coordinates and a horizontal and a vertical border were found; when the
\* header asked and one axis has no border, the flag is false, the offsets are
\* (2, 2) and the image has no margin.
C5_BothAxes ==
  (self.topborder = 1 \/ self.bottomborder = 1)
  /\ (self.leftborder = 1 \/ self.rightborder = 1)

C5_CoordinatesNeedBothAxes ==
  Valid =>
    /\ self.coordinates => HeaderRequestsCoordinates(input) /\ C5_BothAxes
    /\ HeaderRequestsCoordinates(input) /\ ~C5_BothAxes =>
         /\ self.coordinates = FALSE
         /\ self.offset_x = 2
         /\ self.offset_y = 2
         /\ self.imageWidth = Diameter(self.fontSize) * (1 + self.endcol - self.startcol) + 4
         /\ self.imageHeight = Diameter(self.fontSize) * (1 + self.endrow - self.startrow) + 4

\* coordinates were asked for, a top border was found and no vertical one
C5_Witness ==
  /\ Valid
  /\ HeaderRequestsCoordinates(input)
  /\ self.topborder = 1
  /\ self.leftborder = 0 /\ self.rightborder = 0
  /\ self.coordinates = FALSE
  /\ self.offset_x = 2

\* C6: when the diagram has a horizontal border line (top or bottom) and a
\* vertical border (left or right), the image of the input with the flag c is
\* strictly wider and strictly higher than that of the same input without it.
HasHorizontalBorder(in) ==
  LET D == DiagramLines(in)
  IN  D # <<>> /\ (IsBorderLine(D[1]) \/ IsBorderLine(D[Len(D)]))

HasVerticalBorder(in) ==
  LET D == DiagramLines(in)
      rowsOf == {i \in 1 .. Len(D) : ~IsBorderLine(D[i])}
  IN  /\ rowsOf # {}
      /\ \/ \A i \in rowsOf : IsBorderCell(WrittenCells(D[i])[1])
         \/ \A i \in rowsOf : IsBorderCell(WrittenCells(D[i])[Len(WrittenCells(D[i]))])

\* the index in the input of the flag c of its header
FlagIndex(in) ==
  LET l == FirstLine(in)
      p == Len(l) - Len(TrimLeft(l)) + 3
  IN  IF l[p] \in {"W", "B"} THEN p + 1 ELSE p

WithoutFlag(in) == SubSeq(in, 1, FlagIndex(in) - 1) \o DropN(in, FlagIndex(in))

C6_FlagEnlargesImage ==
  Valid /\ HeaderRequestsCoordinates(input)
    /\ ~HeaderRequestsCoordinates(WithoutFlag(input))
    /\ HasHorizontalBorder(input) /\ HasVerticalBorder(input) =>
      /\ self.imageWidth > GoDiagram(WithoutFlag(input)).imageWidth
      /\ self.imageHeight > GoDiagram(WithoutFlag(input)).imageHeight

\* C7: every key of the link map is one character of [a-z0-9WB@#CS]; the keys
\* are the trimmed anchors of the link lines that are such a character, each
\* mapped to the trimmed URL of a line with that anchor, so a link line with any
\* other anchor adds nothing.
LinkLines(in) == {i \in 1 .. Len(BodyLines(in)) : linkMatch(BodyLines(in)[i]).ok}
AnchorOf(in, i) == trim(linkMatch(BodyLines(in)[i]).m1)
UrlOf(in, i) == trim(linkMatch(BodyLines(in)[i]).m2)
GoodAnchor(a) == Len(a) = 1 /\ a[1] \in AnchorChars

C7_LinkKeysAreAnchors ==
  Constructed =>
    /\ \A k \in DOMAIN self.linkmap : GoodAnchor(k)
    /\ Parsed =>
         /\ DOMAIN self.linkmap
              = {AnchorOf(input, i) : i \in {j \in LinkLines(input) : GoodAnchor(AnchorOf(input, j))}}
         /\ \A k \in DOMAIN self.linkmap :
              \E i \in LinkLines(input) :
                AnchorOf(input, i) = k /\ UrlOf(input, i) = self.linkmap[k]

\* a link line with the anchor a was kept and a link line with another anchor
\* was dropped
C7_Witness ==
  /\ Parsed
  /\ DOMAIN self.linkmap = {<<"a">>}
  /\ \E i \in LinkLines(input) : ~GoodAnchor(AnchorOf(input, i))

(***************************************************************************)
(* The cells createSVG draws and the elements of a cell in the document.   *)
(***************************************************************************)
Returned == Valid /\ calls > 0 /\ ret.kind = "returned"

VisibleCells ==
  {c \in (self.startrow .. self.endrow) \X (self.startcol .. self.endcol) : TRUE}

TokenAt(c) == Cell(self.rows, c[1], c[2])

\* the stones (circles of the cell's radius) drawn at the centre of cell c
StonesAt(c) ==
  {i \in DOMAIN ret.xml :
     /\ ret.xml[i].tag = "circle"
     /\ ret.xml[i].cx = elementX(self, c[2])
     /\ ret.xml[i].cy = elementY(self, c[1])
     /\ ret.xml[i].r = self.radius}

\* the markup texts of cell c: half or all of the font width left of the centre
TextsAt(c) ==
  {i \in DOMAIN ret.xml :
     /\ ret.xml[i].tag = "text"
     /\ ret.xml[i].class = "markup"
     /\ ret.xml[i].y = elementY(self, c[1]) - (2 * self.fontSize.h - 50)
     /\ ret.xml[i].x \in {elementX(self, c[2]) - 4 * self.fontSize.w,
                          elementX(self, c[2]) - 2 * self.fontSize.w}}

\* the clickable overlays over cell c
OverlaysAt(c) ==
  {i \in DOMAIN ret.xml :
     /\ ret.xml[i].tag = "a"
     /\ ret.xml[i].x = elementX(self, c[2]) - self.radius
     /\ ret.xml[i].y = elementY(self, c[1]) - self.radius
     /\ ret.xml[i].width = 2 * self.radius
     /\ ret.xml[i].height = 2 * self.radius}

\* C8: a drawn cell whose token is 0 is a stone in the even-move colour (white
\* when Black moves first, black when White does) and its text is 10, never 0.
C8_EvenColour == IF self.firstColor = "B" THEN white ELSE black

C8_ZeroIsEvenTen ==
  Returned =>
    \A c \in VisibleCells :
      TokenAt(c) = <<"0">> =>
        /\ StonesAt(c) # {}
        /\ \A i \in StonesAt(c) : ret.xml[i].fill = C8_EvenColour
        /\ TextsAt(c) # {}
        /\ \A i \in TextsAt(c) : ret.xml[i].text = <<"1", "0">>

\* a document was returned for a diagram with a visible cell 0
C8_Witness == Returned /\ \E c \in VisibleCells : TokenAt(c) = <<"0">>

\* C9: a written row becomes space-separated tokens exactly when it has a space
\* between its cells, a digit and no "{"; every other row, a row written without
\* spaces that holds a digit among them, becomes one-character cells, one for
\* each character.
C9_Spaced(l) ==
  contains(l, " ") /\ (\E i \in 1 .. Len(l) : l[i] \in Digits) /\ ~contains(l, "{")

C9_NonEmpty(ts) == SelectSeq(ts, LAMBDA t : t # <<>>)

C9_RowClassification ==
  Parsed /\ Len(self.rows) = Len(DiagramLines(input)) + 1 =>
    \A i \in 1 .. Len(DiagramLines(input)) :
      LET l == ReplaceBorders(DiagramLines(input)[i])
      IN  IF C9_Spaced(l)
          THEN C9_NonEmpty(self.rows[i]) = C9_NonEmpty(split(l, " "))
          ELSE self.rows[i] = [k \in 1 .. Len(RemoveChars(l, {" "})) |->
                                 <<RemoveChars(l, {" "})[k]>>]

\* C10: on a valid instance createSVG emits a clickable overlay for a visible
\* cell if and only if the cell's token is a key a link line put in the link
\* map, and the overlay's href is the URL mapped to it.
C10_OverlayIffRegistered ==
  Valid /\ calls > 0 =>
    \A c \in VisibleCells :
      /\ (ret.kind = "returned" /\ OverlaysAt(c) # {}) <=> TokenAt(c) \in DOMAIN self.linkmap
      /\ ret.kind = "returned" =>
           \A i \in OverlaysAt(c) : ret.xml[i].href = self.linkmap[TokenAt(c)]

(***************************************************************************)
(* The header as it is written: what follows the prefix, the colour and    *)
(* the flag c.                                                             *)
(***************************************************************************)
AfterFlags(in) ==
  LET r0 == DropN(trim(FirstLine(in)), 2)
      r1 == IF r0 # <<>> /\ Head(r0) \in {"W", "B"} THEN Tail(r0) ELSE r0
  IN  IF r1 # <<>> /\ Head(r1) = "c" THEN Tail(r1) ELSE r1

RECURSIVE DigitRun(_)
DigitRun(s) == IF s # <<>> /\ Head(s) \in Digits THEN 1 + DigitRun(Tail(s)) ELSE 0

HeaderDigits(in) == SubSeq(AfterFlags(in), 1, DigitRun(AfterFlags(in)))

\* C11: when the header carries decimal digits after the colour and the flag,
\* boardSize is that number and the title is the text after the digits; with no
\* digits boardSize is 19; boardSize is a positive integer whenever the header
\* matched.
C11_BoardSizeFromHeader ==
  Parsed =>
    /\ IsNum(self.boardSize) /\ self.boardSize.v > 0
    /\ IF HeaderDigits(input) # <<>>
       THEN /\ self.boardSize = Num(DigitsPrefix(HeaderDigits(input), Digits, 10, 0))
            /\ self.title = trim(DropN(AfterFlags(input), Len(HeaderDigits(input))))
       ELSE self.boardSize = Num(19)

\* the last written line is a border line under at least one other line
BottomBorderWritten(in) ==
  LET D == DiagramLines(in)
  IN  Len(D) >= 2 /\ IsBorderLine(D[Len(D)])

\* every written row ends with a border character
RightBorderWritten(in) ==
  LET D == DiagramLines(in)
      rowsOf == {i \in 1 .. Len(D) : ~IsBorderLine(D[i])}
  IN  /\ rowsOf # {}
      /\ \A i \in rowsOf : IsBorderCell(WrittenCells(D[i])[Len(WrittenCells(D[i]))])

\* C12: bottomborder = 1 exactly when the last written line is a border line,
\* and then endrow is the last interior row; rightborder = 1 exactly when the
\* rows end with a border character; a board enclosed on all four sides has the
\* four flags at 1.
C12_BordersAsWritten ==
  Parsed =>
    /\ self.bottomborder = 1 <=> BottomBorderWritten(input)
    /\ BottomBorderWritten(input) => self.endrow = Len(DiagramLines(input)) - 2
    /\ self.rightborder = 1 <=> RightBorderWritten(input)
    /\ FullyEnclosed(input) =>
         /\ self.topborder = 1 /\ self.bottomborder = 1
         /\ self.leftborder = 1 /\ self.rightborder = 1

\* C13: on an instance construction left valid, every createSVG call completes
\* and returns a document with a width and a height that are numbers.
C13_RenderCompletes ==
  Valid /\ calls > 0 =>
    /\ ret.kind = "returned"
    /\ IsNum(ret.width)
    /\ IsNum(ret.height)

\* the intersection lines that end at the centre of cell c
LinesAt(c) ==
  {i \in DOMAIN ret.xml :
     /\ ret.xml[i].tag = "line"
     /\ ret.xml[i].x2 = elementX(self, c[2])
     /\ ret.xml[i].y2 = elementY(self, c[1])}

\* the symbol primitives of cell c: its stone, its intersection lines, its text
SymbolsAt(c) == StonesAt(c) \cup LinesAt(c) \cup TextsAt(c)

\* C14: in the returned document the overlay of a linked cell comes before
\* every symbol primitive of that cell.
C14_OverlayBeforeSymbol ==
  Returned =>
    \A c \in VisibleCells :
      \A i \in OverlaysAt(c) : \A j \in SymbolsAt(c) : i < j

\* a token that is a decimal number, and its value
IsDecimal(tok) == tok # <<>> /\ \A i \in 1 .. Len(tok) : tok[i] \in Digits
DecimalValue(tok) == DigitsPrefix(tok, Digits, 10, 0)

\* C15: a drawn cell whose token is a decimal number n has a stone that is
\* black for odd n and white for even n when Black moves first, white for odd n
\* and black for even n when White moves first, and its text has the other
\* colour.
C15_StoneColour(n) ==
  IF self.firstColor = "B"
  THEN (IF n % 2 = 1 THEN black ELSE white)
  ELSE (IF n % 2 = 1 THEN white ELSE black)

C15_Opposite(colour) == IF colour = black THEN white ELSE black

C15_NumberColours ==
  Returned =>
    \A c \in VisibleCells :
      IsDecimal(TokenAt(c)) =>
        LET stone == C15_StoneColour(DecimalValue(TokenAt(c)))
        IN  /\ StonesAt(c) # {}
            /\ \A i \in StonesAt(c) : ret.xml[i].fill = stone
            /\ TextsAt(c) # {}
            /\ \A i \in TextsAt(c) : ret.xml[i].fill = C15_Opposite(stone)

\* a document was returned, White moving first, for a diagram with a visible
\* odd and a visible even number
C15_Witness ==
  /\ Returned
  /\ self.firstColor = "W"
  /\ \E c \in VisibleCells : IsDecimal(TokenAt(c)) /\ DecimalValue(TokenAt(c)) % 2 = 1
  /\ \E c \in VisibleCells : IsDecimal(TokenAt(c)) /\ DecimalValue(TokenAt(c)) = 12

\* the row labels and the column labels of the returned document
RowLabels ==
  {i \in DOMAIN ret.xml :
     /\ ret.xml[i].tag = "text"
     /\ ret.xml[i].class = "coordClass"
     /\ "value" \in DOMAIN ret.xml[i]}

ColLabels ==
  {i \in DOMAIN ret.xml :
     /\ ret.xml[i].tag = "text"
     /\ ret.xml[i].class = "coordClass"
     /\ "text" \in DOMAIN ret.xml[i]}

\* C16: with coordinates enabled the document has one row label for each
\* visible row and one column label for each visible column; the row labels
\* start at the visible row count when there is a bottom border, else at
\* boardSize when there is a top border, and go down by one from one row to
\* the next.
C16_FirstRowLabel ==
  IF self.bottomborder = 1 THEN Num(self.endrow - self.startrow + 1) ELSE self.boardSize

C16_OneLabelPerRowAndColumn ==
  Returned /\ self.coordinates =>
    /\ Cardinality(RowLabels) = self.endrow - self.startrow + 1
    /\ Cardinality(ColLabels) = self.endcol - self.startcol + 1
    /\ \A i \in RowLabels :
         LET before == Cardinality({j \in RowLabels : j < i})
         IN  IsNum(C16_FirstRowLabel) =>
               ret.xml[i].value = Num(C16_FirstRowLabel.v - before)

IsLetter(tok) == Len(tok) = 1 /\ tok[1] \in LowerLetters

\* C17: the area drawn under the letter of a lowercase-letter cell has the link
\* colour when the letter is a key of the link map and the board colour
\* otherwise.
C17_OcclusionColourByLink ==
  Returned =>
    \A c \in VisibleCells :
      IsLetter(TokenAt(c)) =>
        /\ StonesAt(c) # {}
        /\ \A i \in StonesAt(c) :
             ret.xml[i].fill = IF TokenAt(c) \in DOMAIN self.linkmap THEN link ELSE goban

\* C18: a getTitle call on a constructed instance returns a string, whether
\* the header matched or not, as a createSVG call on an invalid instance returns
\* the placeholder.
C18_QueriesAreSafe ==
  Constructed =>
    /\ titleRet # NoReturn => titleRet.kind = "returned"
    /\ ~Valid /\ calls > 0 => ret.kind = "returned"

====
